---- MODULE Spec2Model ----
(***************************************************************************)
(* Model of src/flow.py: the Streamlit page that fetches tennis fixtures   *)
(* day by day from the API (or takes an uploaded JSON payload), keeps the  *)
(* normalized rows in st.session_state.df_buf and saves them to Snowflake   *)
(* by delete-partition-then-insert.                                         *)
(*                                                                          *)
(* Streamlit re-runs the whole script after every widget interaction, so    *)
(* every action below is one complete script run: the fetch block (when the *)
(* fetch button was clicked), the upload block (whenever a file sits in the *)
(* uploader), the save block (when the save button was clicked) and the     *)
(* quick query at the bottom of the page.                                   *)
(***************************************************************************)
EXTENDS Integers, Sequences, FiniteSets, Bags, TLC

\* ------------------------------------------------------------------ bounds
\* Calendar days the date widgets can be set to: 1..MaxDay.
MaxDay == 3
\* Largest number of rows the table may hold (guard of a save).
MaxTable == 2

\* ------------------------------------------------------- python-like values
\* A JSON scalar: a string, an integer (decimal text in v) or null.
S(x) == [t |-> "str", v |-> x]
N(x) == [t |-> "int", v |-> x]
PyNone == [t |-> "null", v |-> ""]

\* Python truthiness of a scalar, as used by `a or b`.
Truthy(x) == \/ x.t = "str" /\ x.v # ""
             \/ x.t = "int" /\ x.v # "0"

\* str(x) for the scalars above.
PyStr(x) == IF x.t = "null" THEN S("None") ELSE S(x.v)

\* dict.get(key, default): a key present with a null value yields the null.
Get(it, key, default) == IF key \in DOMAIN it THEN it[key] ELSE default

\* ------------------------------------------------------------------- dates
\* The calendar: day number d is rendered DateStrs[d] by strftime("%Y-%m-%d").
DateStrs == << "2024-01-01", "2024-01-02", "2024-01-03",
               "2024-01-04", "2024-01-05", "2024-01-06" >>
Days == 1..MaxDay
Strftime(d) == DateStrs[d]

\* pd.to_datetime(..., errors="coerce") yields NaT for what it cannot parse.
NaT == 0

\* to_date('<text>') / pd.to_datetime(<text>).date() of a date text.
ToDate(s) == IF \E d \in DOMAIN DateStrs : DateStrs[d] = s
             THEN CHOOSE d \in DOMAIN DateStrs : DateStrs[d] = s
             ELSE NaT

\* str.strip() on the texts the text inputs can hold.
Strip(s) == CASE s = " key " -> "key"
              [] s = "UTC " -> "UTC"
              [] OTHER -> s

\* ----------------------------------------------------------- upstream data
\* Upstream fixture records the API (or an uploaded file) may carry.
R1 == [event_key |-> S("k1"), event_date |-> S("2024-01-01"),
       event_time |-> S("10:00"), event_first_player |-> S("Ann"),
       event_second_player |-> S("Bea"), tournament_name |-> S("Open"),
       event_type_type |-> S("Wta Singles"), event_status |-> S("Finished")]
\* Same event_key as R1, other fields differ.
R2 == [event_key |-> S("k1"), event_date |-> S("2024-01-02"),
       event_time |-> S("11:30"), event_first_player |-> S("Ann"),
       event_second_player |-> S("Cleo"), tournament_name |-> S("Open"),
       event_type_type |-> S("Wta Singles"), event_status |-> S("")]
\* No event_key, an integer match_key, an unparseable date, fields absent.
R3 == [match_key |-> N("2"), event_date |-> S("not-a-date"),
       event_first_player |-> S("Dee")]
\* Fields present with a null and with a non-string value.
R4 == [event_key |-> N("4"), match_key |-> N("9"), event_date |-> PyNone,
       event_time |-> S("09:00"), event_status |-> N("1")]
NormFields == {"event_key", "event_date", "event_time", "first_player",
               "second_player", "tournament_name", "event_type_type",
               "event_status"}

\* One row of normalize_result.
NormalizeOne(it) ==
  [event_key       |-> PyStr(IF Truthy(Get(it, "event_key", PyNone))
                             THEN it["event_key"]
                             ELSE IF Truthy(Get(it, "match_key", PyNone))
                                  THEN it["match_key"]
                                  ELSE S("")),
   event_date      |-> Get(it, "event_date", S("")),
   event_time      |-> Get(it, "event_time", S("")),
   first_player    |-> Get(it, "event_first_player", S("")),
   second_player   |-> Get(it, "event_second_player", S("")),
   tournament_name |-> Get(it, "tournament_name", S("")),
   event_type_type |-> Get(it, "event_type_type", S("")),
   event_status    |-> Get(it, "event_status", S(""))]

\* normalize_result(result_list): a data frame is the sequence of its rows.
normalize_result(result_list) ==
  [i \in 1..Len(result_list) |-> NormalizeOne(result_list[i])]

\* df.empty
Empty(df) == Len(df) = 0

\* ------------------------------------------------------------ API answers
\* JSON envelopes of the API: success flag, result list, message.
PFail == [success |-> N("0"), message |-> S("quota exceeded")]
PNoResult == [success |-> N("1")]
POk(list) == [success |-> N("1"), result |-> list]

\* What one call of fetch_api_day does: it raises (network error, non-2xx
\* status, a body that is no JSON) or it returns the parsed body.
Raise == [kind |-> "raise", body |-> PNoResult]
Json(p) == [kind |-> "json", body |-> p]

\* The answers of the API for one day: a failure of either kind, no fixtures,
\* or fixtures (keys k1, 2, k1 again with other fields, 4).
DayResponses == {Raise, Json(PFail), Json(PNoResult),
                 Json(POk(<<R1, R3, R2, R4>>))}

\* payload.get("success") != 1
SuccessIsNot1(payload) == Get(payload, "success", PyNone) # N("1")

\* payload.get("result"), with normalize_result's `result_list or []`.
ResultOf(payload) == IF "result" \in DOMAIN payload THEN payload["result"] ELSE <<>>

\* fetch_api_day(api_key, date_str, timezone): the request it issues.
fetch_api_day(key, date_str, tz) ==
  [method |-> "get_fixtures", APIkey |-> key, date_start |-> date_str,
   date_stop |-> date_str, timezone |-> tz]

\* ------------------------------------------------------------- data frames
RECURSIVE Concat(_)
\* pd.concat(dfs, ignore_index=True)
Concat(dfs) == IF dfs = <<>> THEN <<>> ELSE Head(dfs) \o Concat(Tail(dfs))

RECURSIVE KeepFirst(_, _)
KeepFirst(df, i) ==
  IF i > Len(df) THEN <<>>
  ELSE (IF \E j \in 1..(i - 1) : df[j].event_key = df[i].event_key
        THEN <<>> ELSE <<df[i]>>) \o KeepFirst(df, i + 1)

RECURSIVE KeepLast(_, _)
KeepLast(df, i) ==
  IF i > Len(df) THEN <<>>
  ELSE (IF \E j \in (i + 1)..Len(df) : df[j].event_key = df[i].event_key
        THEN <<>> ELSE <<df[i]>>) \o KeepLast(df, i + 1)

\* Mutant: drop_duplicates with keep="last".
drop_duplicates_last(df) == KeepLast(df, 1)

\* df.drop_duplicates(subset=["event_key"]): keep="first" is the default.
drop_duplicates(df) == KeepFirst(df, 1)

\* ------------------------------------------------------------ fetch block
RECURSIVE FetchLoopAbort(_, _, _, _, _, _)
\* Mutant: the loop without its inner try/except, so that the first day
\* whose call raises ends the loop.
FetchLoopAbort(i, total, desde, tz_key, answers, acc) ==
  IF i > total THEN acc
  ELSE
    LET dia_str == Strftime(desde + (i - 1))
        request == fetch_api_day(tz_key.key, dia_str, tz_key.tz)
        a       == answers[i]
        df_dia  == normalize_result(ResultOf(a.body))
        called  == [acc EXCEPT !.calls = Append(@, request)]
    IN IF a.kind = "raise"
       THEN [called EXCEPT !.errores = Append(@, [dia |-> dia_str, why |-> "exception"])]
       ELSE FetchLoopAbort(i + 1, total, desde, tz_key, answers,
              IF SuccessIsNot1(a.body)
              THEN [called EXCEPT !.errores =
                      Append(@, [dia |-> dia_str, why |-> "success != 1"])]
              ELSE IF ~Empty(df_dia)
              THEN [called EXCEPT !.dfs = Append(@, df_dia)]
              ELSE called)

RECURSIVE FetchLoop(_, _, _, _, _, _)
\* The per-day loop `for i in range(total_dias)`, from iteration i on, given
\* the API's answers; acc carries dfs, errores and the requests issued.
FetchLoop(i, total, desde, tz_key, answers, acc) ==
  IF i > total THEN acc
  ELSE
    LET dia_str == Strftime(desde + (i - 1))
        request == fetch_api_day(tz_key.key, dia_str, tz_key.tz)
        a       == answers[i]
        df_dia  == normalize_result(ResultOf(a.body))
        next    ==
          IF a.kind = "raise"
          THEN [acc EXCEPT !.errores = Append(@, [dia |-> dia_str, why |-> "exception"])]
          ELSE IF SuccessIsNot1(a.body)
          THEN [acc EXCEPT !.errores = Append(@, [dia |-> dia_str, why |-> "success != 1"])]
          ELSE IF ~Empty(df_dia)
          THEN [acc EXCEPT !.dfs = Append(@, df_dia)]
          ELSE acc
    IN FetchLoop(i + 1, total, desde, tz_key, answers,
                 [next EXCEPT !.calls = Append(@, request)])

\* total_dias = (fecha_hasta - fecha_desde).days + 1
total_dias(desde, hasta) == (hasta - desde) + 1

\* Mutant: the merged frame without the drop of duplicates.
MergeNoDedup(dfs) == Concat(dfs)

\* The merged frame of a fetch: concat, then drop duplicate event_keys.
Merge(dfs) == drop_duplicates(Concat(dfs))

\* `if do_fetch:` ... The block's outcome: the buffer, the merged frame
\* df_all (empty when none was built), what the loop gathered and the
\* messages shown.
FetchBlock(key, desde, hasta, tz, buf, answers) ==
  LET none == [dfs |-> <<>>, errores |-> <<>>, calls |-> <<>>]
  IN
  IF Strip(key) = ""
  THEN [buf |-> buf, df_all |-> <<>>, loop |-> none, msgs |-> {"warn: api key"}]
  ELSE IF hasta < desde
  THEN [buf |-> buf, df_all |-> <<>>, loop |-> none, msgs |-> {"fetch: invalid range"}]
  ELSE
    LET loop == FetchLoop(1, total_dias(desde, hasta), desde,
                          [key |-> Strip(key), tz |-> Strip(tz)], answers, none)
    IN IF loop.dfs = <<>>
       THEN [buf |-> buf, df_all |-> <<>>, loop |-> loop,
             msgs |-> {"error: no matches"} \cup
                      (IF loop.errores # <<>> THEN {"warn: day errors"} ELSE {})]
       ELSE [buf |-> Merge(loop.dfs), df_all |-> Merge(loop.dfs), loop |-> loop,
             msgs |-> {"success: fetched"} \cup
                      (IF loop.errores # <<>> THEN {"day errors"} ELSE {})]

\* ----------------------------------------------------------- upload block
\* An uploaded file: no JSON at all, or one of the envelopes.
BadFile == [kind |-> "raise", body |-> PNoResult]
Files == {BadFile, Json(PFail), Json(POk(<<>>)), Json(POk(<<R1>>)),
          Json(POk(<<R2, R3>>))}
NoFile == [kind |-> "none", body |-> PNoResult]

\* `if upl is not None:` ...
UploadBlock(file, buf) ==
  IF file = NoFile THEN [buf |-> buf, msgs |-> {}]
  ELSE IF file.kind = "raise" THEN [buf |-> buf, msgs |-> {"error: invalid json"}]
  ELSE IF SuccessIsNot1(file.body) THEN [buf |-> buf, msgs |-> {"error: json without success=1"}]
  ELSE [buf |-> normalize_result(ResultOf(file.body)), msgs |-> {"success: json loaded"}]

\* -------------------------------------------------------------- Snowflake
\* delete_partition_range: the rows that survive
\*   delete ... where source_date between to_date(start) and to_date(stop)
\*                and timezone_used = tz
InPartition(row, start_str, stop_str, tz) ==
  /\ ToDate(start_str) <= row.source_date
  /\ row.source_date <= ToDate(stop_str)
  /\ row.timezone_used = tz

\* The table is the bag of its rows.  The rows of tbl that are (keep = TRUE)
\* or are not (keep = FALSE) in the partition.
Filter(tbl, start_str, stop_str, tz, keep) ==
  LET rows == {r \in DOMAIN tbl : InPartition(r, start_str, stop_str, tz) = keep}
  IN [r \in rows |-> tbl[r]]

\* Mutant: the delete without its timezone condition.
delete_any_timezone(tbl, start_str, stop_str, tz) ==
  LET rows == {r \in DOMAIN tbl : ~(/\ ToDate(start_str) <= r.source_date
                                     /\ r.source_date <= ToDate(stop_str))}
  IN [r \in rows |-> tbl[r]]

delete_partition_range(tbl, start_str, stop_str, tz) ==
  Filter(tbl, start_str, stop_str, tz, FALSE)

\* The bag of a frame's rows.
RowsOf(df) ==
  LET rows == {df[i] : i \in 1..Len(df)}
  IN [r \in rows |-> Cardinality({i \in 1..Len(df) : df[i] = r})]

\* df2["source_date"]: the date of event_date, the start date where
\* to_datetime(errors="coerce") gave NaT (a null, a text that is no date).
SourceDate(row, start_str) ==
  LET parsed == IF row.event_date.t = "str" THEN ToDate(row.event_date.v) ELSE NaT
  IN IF parsed = NaT THEN ToDate(start_str) ELSE parsed

\* One row of df2: the buffer's row with source_date and timezone_used.
StampRow(row, start_str, tz) ==
  [event_key |-> row.event_key, event_date |-> row.event_date,
   event_time |-> row.event_time, first_player |-> row.first_player,
   second_player |-> row.second_player, tournament_name |-> row.tournament_name,
   event_type_type |-> row.event_type_type, event_status |-> row.event_status,
   source_date |-> SourceDate(row, start_str), timezone_used |-> tz]

Stamp(df, start_str, tz) == [i \in 1..Len(df) |-> StampRow(df[i], start_str, tz)]

\* insert_df: write_pandas appends the frame's rows.
insert_df(tbl, df2) == tbl (+) RowsOf(df2)

\* What the warehouse does during one save: the connection or the DDL fails,
\* the delete fails, the insert fails, or everything works.
DbOutcomes == {"ok", "connect fails", "delete fails", "insert fails"}

\* Mutant: a save whose failed insert rolls the delete back.
TrySaveRollback(tbl, deleted, df2, db) ==
  CASE db = "connect fails" ->
         [table |-> tbl, ops |-> <<>>, msgs |-> {"error: save failed"}]
    [] db = "delete fails" ->
         [table |-> tbl, ops |-> <<"delete">>, msgs |-> {"error: save failed"}]
    [] db = "insert fails" ->
         [table |-> tbl, ops |-> <<"delete", "insert">>,
          msgs |-> {"error: save failed"}]
    [] OTHER ->
         [table |-> insert_df(deleted, df2), ops |-> <<"delete", "insert">>,
          msgs |-> {"success: saved"}]

\* The try block of the save: connect and ensure_objects, delete the
\* partition, insert df2; any exception ends it with an error message.
TrySave(tbl, deleted, df2, db) ==
  CASE db = "connect fails" ->
         [table |-> tbl, ops |-> <<>>, msgs |-> {"error: save failed"}]
    [] db = "delete fails" ->
         [table |-> tbl, ops |-> <<"delete">>, msgs |-> {"error: save failed"}]
    [] db = "insert fails" ->
         [table |-> deleted, ops |-> <<"delete", "insert">>,
          msgs |-> {"error: save failed"}]
    [] OTHER ->
         [table |-> insert_df(deleted, df2), ops |-> <<"delete", "insert">>,
          msgs |-> {"success: saved"}]

\* Mutant: the save block without its check of the date range.
SaveBlockNoRangeCheck(df, desde, hasta, tz, tbl, db) ==
  IF Empty(df)
  THEN [table |-> tbl, ops |-> <<>>, msgs |-> {"warn: nothing to save"}]
  ELSE TrySave(tbl,
               delete_partition_range(tbl, Strftime(desde), Strftime(hasta), Strip(tz)),
               Stamp(df, Strftime(desde), Strip(tz)),
               db)

\* `if do_save:` ... with df the buffer as the preview read it.
SaveBlock(df, desde, hasta, tz, tbl, db) ==
  IF Empty(df)
  THEN [table |-> tbl, ops |-> <<>>, msgs |-> {"warn: nothing to save"}]
  ELSE IF hasta < desde
  THEN [table |-> tbl, ops |-> <<>>, msgs |-> {"save: invalid range"}]
  ELSE TrySave(tbl,
               delete_partition_range(tbl, Strftime(desde), Strftime(hasta), Strip(tz)),
               Stamp(df, Strftime(desde), Strip(tz)),
               db)

\* The quick query q: the rows of the widgets' date range and timezone (the
\* text input's value as typed).  The result is the bag of its rows: the
\* ORDER BY is not modelled, and the LIMIT (1 at least, 200 by default)
\* is taken to be above the number of rows the table holds.
q(tbl, start_str, stop_str, tz) == Filter(tbl, start_str, stop_str, tz, TRUE)

\* ------------------------------------------------------------------- state
VARIABLES
  api_key,       \* sidebar text input "API Key"
  fecha_desde,   \* sidebar date input "Fecha desde"
  fecha_hasta,   \* sidebar date input "Fecha hasta"
  timezone,      \* sidebar text input "Timezone"
  upl,           \* the file uploader's file, NoFile when empty
  df_buf,        \* st.session_state.df_buf
  table,         \* the rows of SF_TABLE
  \* what the last script run did
  answers,       \* the API's answers to its calls, one per day of the loop
  loop,          \* dfs, errores and the requests of its fetch loop
  df_all,        \* the merged frame its fetch block built
  ops,           \* the statements its save block sent to Snowflake
  report,        \* the messages it showed
  df_db          \* the result of its quick query

vars == << api_key, fecha_desde, fecha_hasta, timezone, upl, df_buf, table,
           answers, loop, df_all, ops, report, df_db >>

ApiKeys == {"", " key "}
Timezones == {"America/Monterrey", "UTC "}

NoLoop == [dfs |-> <<>>, errores |-> <<>>, calls |-> <<>>]

\* The sidebar's range check, shown on every run.
SidebarMsgs(desde, hasta) == IF hasta < desde THEN {"sidebar: invalid range"} ELSE {}

\* One run of the script with the widgets' new values: key, desde, hasta, tz
\* and file are the widgets, do_fetch and do_save the buttons, ans the API's
\* answers and db the warehouse's behaviour during this run.
Script(key, desde, hasta, tz, file, do_fetch, do_save, ans, db) ==
  \E f \in {IF do_fetch
             THEN FetchBlock(key, desde, hasta, tz, df_buf, ans)
             ELSE [buf |-> df_buf, df_all |-> <<>>, loop |-> NoLoop, msgs |-> {}]} :
  \E u \in {UploadBlock(file, f.buf)} :
  \* df = st.session_state.df_buf, read for the preview and the save
  \E s \in {IF do_save
             THEN SaveBlock(u.buf, desde, hasta, tz, table, db)
             ELSE [table |-> table, ops |-> <<>>, msgs |-> {}]} :
     /\ api_key' = key
     /\ fecha_desde' = desde
     /\ fecha_hasta' = hasta
     /\ timezone' = tz
     /\ upl' = file
     /\ df_buf' = u.buf
     /\ table' = s.table
     /\ answers' = ans
     /\ loop' = f.loop
     /\ df_all' = f.df_all
     /\ ops' = s.ops
     /\ report' = SidebarMsgs(desde, hasta) \cup f.msgs \cup u.msgs \cup s.msgs
     /\ df_db' = q(s.table, Strftime(desde), Strftime(hasta), tz)

\* The first run of a session: default widgets (both dates today), no file,
\* an empty buffer; the table is empty.
Init ==
  /\ api_key = ""
  /\ fecha_desde \in Days
  /\ fecha_hasta = fecha_desde
  /\ timezone = "America/Monterrey"
  /\ upl = NoFile
  /\ df_buf = <<>>
  /\ table = EmptyBag
  /\ answers = <<>>
  /\ loop = NoLoop
  /\ df_all = <<>>
  /\ ops = <<>>
  /\ report = {}
  /\ df_db = EmptyBag

\* ----------------------------------------------------------------- actions
\* The API answers each call of a fetch that gets past its checks.
AnswerSets(key, desde, hasta) ==
  IF Strip(key) = "" \/ hasta < desde THEN {<<>>}
  ELSE [1..total_dias(desde, hasta) -> DayResponses]

SetApiKey ==
  \E k \in ApiKeys \ {api_key} :
    Script(k, fecha_desde, fecha_hasta, timezone, upl, FALSE, FALSE, <<>>, "ok")

SetFechaDesde ==
  \E d \in Days \ {fecha_desde} :
    Script(api_key, d, fecha_hasta, timezone, upl, FALSE, FALSE, <<>>, "ok")

SetFechaHasta ==
  \E d \in Days \ {fecha_hasta} :
    Script(api_key, fecha_desde, d, timezone, upl, FALSE, FALSE, <<>>, "ok")

SetTimezone ==
  \E z \in Timezones \ {timezone} :
    Script(api_key, fecha_desde, fecha_hasta, z, upl, FALSE, FALSE, <<>>, "ok")

SetUpload ==
  \E f \in (Files \cup {NoFile}) \ {upl} :
    Script(api_key, fecha_desde, fecha_hasta, timezone, f, FALSE, FALSE, <<>>, "ok")

ClickFetch ==
  \E ans \in AnswerSets(api_key, fecha_desde, fecha_hasta) :
    Script(api_key, fecha_desde, fecha_hasta, timezone, upl, TRUE, FALSE, ans, "ok")

\* The table the save would leave holds MaxTable rows at most.
ClickSave ==
  /\ BagCardinality(delete_partition_range(table, Strftime(fecha_desde),
                       Strftime(fecha_hasta), Strip(timezone)))
       + Len(UploadBlock(upl, df_buf).buf) <= MaxTable
  /\ \E db \in DbOutcomes :
       Script(api_key, fecha_desde, fecha_hasta, timezone, upl, FALSE, TRUE, <<>>, db)

\* A click on the fetch button that the block's checks refuse.
ClickFetchRefused ==
  /\ Strip(api_key) = "" \/ fecha_hasta < fecha_desde
  /\ ClickFetch

\* The operator works with the API (and may leave a file in the uploader);
\* nothing is saved.
NextFetch == SetApiKey \/ SetFechaDesde \/ SetFechaHasta \/ SetUpload \/ ClickFetch
SpecFetch == Init /\ [][NextFetch]_vars

\* The operator works with uploaded files ("Plan B") and saves.
NextSave == SetFechaDesde \/ SetFechaHasta \/ SetTimezone \/ SetUpload \/ ClickSave
SpecSave == Init /\ [][NextSave]_vars

\* The operator loads files, saves, and clicks the fetch button only where
\* the fetch block refuses to call the API.
NextRefuse == SetApiKey \/ SetFechaDesde \/ SetFechaHasta \/ SetUpload
              \/ ClickFetchRefused \/ ClickSave
SpecRefuse == Init /\ [][NextRefuse]_vars

\* ------------------------------------------------- what the last run did
\* The fetch block got past its checks and ran its loop.
FetchPassed == report \cap {"success: fetched", "error: no matches"} # {}

\* The upload block loaded the file's rows.
UploadPassed == "success: json loaded" \in report

\* The fetch button was clicked: the fetch block shows one of its messages.
FetchClicked ==
  report \cap {"warn: api key", "fetch: invalid range", "error: no matches",
               "success: fetched"} # {}

\* The save button was clicked: the save block shows one of its messages.
SaveClicked ==
  report \cap {"warn: nothing to save", "save: invalid range", "error: save failed",
               "success: saved"} # {}

\* The save block sent its delete and its insert, and the insert went through.
Saved == "success: saved" \in report

\* The API's answer for day i of the range is a failure: the call raised, or
\* its envelope's success is not 1.
DayFailed(i) ==
  \/ answers[i].kind = "raise"
  \/ ~("success" \in DOMAIN answers[i].body /\ answers[i].body["success"] = N("1"))

\* The normalized records of day i, none for a failed day.
DayRecords(i) ==
  IF DayFailed(i) \/ "result" \notin DOMAIN answers[i].body THEN <<>>
  ELSE normalize_result(answers[i].body["result"])

\* The records of all days, in day order.
FetchedCat == Concat([i \in 1..Len(answers) |-> DayRecords(i)])

\* Index i holds the first record of its event_key in df.
IsFirst(df, i) == \A j \in 1..(i - 1) : df[j].event_key # df[i].event_key

\* The rows of the page's partition key: the dates of the two date inputs and
\* the timezone as the save stamps it.
Partition(tbl) ==
  LET rows == {r \in DOMAIN tbl : /\ fecha_desde <= r.source_date
                                  /\ r.source_date <= fecha_hasta
                                  /\ r.timezone_used = Strip(timezone)}
  IN [r \in rows |-> tbl[r]]

\* The rows outside that partition.
Outside(tbl) ==
  LET rows == {r \in DOMAIN tbl : ~(/\ fecha_desde <= r.source_date
                                    /\ r.source_date <= fecha_hasta
                                    /\ r.timezone_used = Strip(timezone))}
  IN [r \in rows |-> tbl[r]]

\* The FixtureRecord fields of a stored row.
Project(row) ==
  [event_key |-> row.event_key, event_date |-> row.event_date,
   event_time |-> row.event_time, first_player |-> row.first_player,
   second_player |-> row.second_player, tournament_name |-> row.tournament_name,
   event_type_type |-> row.event_type_type, event_status |-> row.event_status]

\* The bag rows holds exactly the rows of df, each with stamped fields added.
SameContent(rows, df) ==
  /\ BagCardinality(rows) = Len(df)
  /\ \A i \in 1..Len(df) : \E r \in DOMAIN rows : Project(r) = df[i]
  /\ \A r \in DOMAIN rows : \E i \in 1..Len(df) : Project(r) = df[i]

\* ------------------------------------------------------------------ claims
\* C1: in a range fetch every day of the range is called, in order; the
\* error list holds exactly one entry for each failed day, with that day's
\* date, and none for the other days; and every record of a day that
\* succeeded is in the merged frame, unless the merged frame holds an earlier
\* record of the same event_key in its place.
C1_FailedDaysDoNotAbort ==
  FetchPassed =>
    LET n == (fecha_hasta - fecha_desde) + 1
    IN /\ Len(loop.calls) = n
       /\ \A i \in 1..n : loop.calls[i].date_start = DateStrs[fecha_desde + (i - 1)]
       /\ \A i \in 1..n :
            Cardinality({k \in 1..Len(loop.errores) :
                           loop.errores[k].dia = DateStrs[fecha_desde + (i - 1)]})
              = IF DayFailed(i) THEN 1 ELSE 0
       /\ Len(loop.errores) = Cardinality({i \in 1..n : DayFailed(i)})
       /\ \A i \in 1..n : \A j \in 1..Len(DayRecords(i)) :
            \/ \E k \in 1..Len(df_all) : df_all[k] = DayRecords(i)[j]
            \/ \E k \in 1..Len(df_all) :
                 /\ df_all[k].event_key = DayRecords(i)[j].event_key
                 /\ \E i2 \in 1..i : \E j2 \in 1..Len(DayRecords(i2)) :
                      /\ i2 < i \/ j2 < j
                      /\ DayRecords(i2)[j2] = df_all[k]

\* A three-day fetch whose second day alone failed.
C1_Witness ==
  /\ FetchPassed
  /\ fecha_hasta - fecha_desde = 2
  /\ ~DayFailed(1) /\ DayFailed(2) /\ ~DayFailed(3)
  /\ DayRecords(1) # <<>> /\ DayRecords(3) # <<>>
  /\ Len(loop.errores) = 1
  /\ df_all # <<>>

\* C5: the merged frame holds, for every event_key of the day-ordered
\* concatenation, exactly one record, the first of that key in the
\* concatenation; it holds nothing else; and its records are in the order of
\* their first occurrences.
C5_StableFirstWins ==
  FetchPassed =>
    LET cat == FetchedCat
    IN /\ \A i \in 1..Len(cat) :
            IsFirst(cat, i) =>
              /\ Cardinality({k \in 1..Len(df_all) :
                                df_all[k].event_key = cat[i].event_key}) = 1
              /\ \E k \in 1..Len(df_all) : df_all[k] = cat[i]
       /\ \A k \in 1..Len(df_all) :
            \E i \in 1..Len(cat) : IsFirst(cat, i) /\ cat[i] = df_all[k]
       /\ \A k \in 1..Len(df_all) : \A l \in (k + 1)..Len(df_all) :
            \E i \in 1..Len(cat) : \E j \in (i + 1)..Len(cat) :
              /\ IsFirst(cat, i) /\ cat[i] = df_all[k]
              /\ IsFirst(cat, j) /\ cat[j] = df_all[l]

\* A fetch whose concatenation holds K1, K2, K1' in this order.
C5_Witness ==
  /\ FetchPassed
  /\ df_all # <<>>
  /\ \E i \in 1..Len(FetchedCat) : \E j \in (i + 1)..Len(FetchedCat) :
       \E k \in (j + 1)..Len(FetchedCat) :
         /\ FetchedCat[i].event_key = FetchedCat[k].event_key
         /\ FetchedCat[i] # FetchedCat[k]
         /\ FetchedCat[i].event_key # FetchedCat[j].event_key

\* C7 as stated: a fetch of the one day a yields the normalization of the
\* result list the API returns for a, repeated event_keys included.
C7_RangeOfOneIsNormalization ==
  (FetchPassed /\ fecha_desde = fecha_hasta /\ ~DayFailed(1)) =>
    df_all = DayRecords(1)

\* C7 amended: a fetch of the one day a yields the normalization of the
\* result list, less the records that repeat an earlier record's event_key.
C7_RangeOfOneIsDedupedNormalization ==
  (FetchPassed /\ fecha_desde = fecha_hasta /\ ~DayFailed(1)) =>
    LET norm   == DayRecords(1)
        firsts == {i \in 1..Len(norm) : IsFirst(norm, i)}
    IN /\ Len(df_all) = Cardinality(firsts)
       /\ \A k \in 1..Len(df_all) :
            \E i \in firsts : /\ Cardinality({j \in firsts : j < i}) = k - 1
                              /\ df_all[k] = norm[i]

\* A one-day fetch whose result list repeats an event_key.
C7_Witness ==
  /\ FetchPassed /\ fecha_desde = fecha_hasta /\ ~DayFailed(1)
  /\ \E i \in 1..Len(DayRecords(1)) : ~IsFirst(DayRecords(1), i)
  /\ df_all # <<>>

\* C8: every field of every normalized record is a string.
C8_FieldsAreStrings ==
  \A i \in 1..Len(df_buf) : \A f \in NormFields : df_buf[i][f].t = "str"

\* C9: after a run that loaded a file the buffer holds that file's rows, and
\* after a run whose fetch got past its checks (and that loaded no file) the
\* buffer holds only records of that fetch.
C9_BufferSuperseded ==
  /\ UploadPassed => df_buf = normalize_result(ResultOf(upl.body))
  /\ (FetchPassed /\ ~UploadPassed) =>
       \A k \in 1..Len(df_buf) :
         \E i \in 1..Len(answers) : \E j \in 1..Len(DayRecords(i)) :
           DayRecords(i)[j] = df_buf[k]

\* C6: a click on the fetch or the save button while fecha_hasta is before
\* fecha_desde is reported, makes no API call, sends nothing to Snowflake
\* and leaves the buffer and the table as they were.
C6_InvalidRangeRefused ==
  [][ (fecha_hasta' < fecha_desde' /\ (FetchClicked' \/ SaveClicked')) =>
        /\ "sidebar: invalid range" \in report'
        /\ report' \cap {"success: fetched", "error: no matches", "success: saved",
                         "error: save failed"} = {}
        /\ loop'.calls = <<>>
        /\ ops' = <<>>
        /\ df_buf' = df_buf
        /\ table' = table ]_vars

\* A refused click in an invalid range, with rows in the buffer and the table.
C6_Witness ==
  /\ fecha_hasta < fecha_desde
  /\ report \cap {"fetch: invalid range", "save: invalid range"} # {}
  /\ df_buf # <<>>
  /\ table # EmptyBag

\* C2 as stated: a save with an empty buffer still deletes the partition.
C2_EmptySaveClearsPartition ==
  "warn: nothing to save" \in report => Partition(table) = EmptyBag

\* C2 amended: a save with an empty buffer sends nothing and leaves the
\* table as it was; a save whose delete went through keeps every row outside
\* the partition and no row the partition held before: what it adds to the
\* rows outside is nothing (the insert failed) or the buffer's rows.
C2_DeleteOnlyWithRows ==
  [][ SaveClicked' =>
        IF Empty(df_buf')
        THEN /\ table' = table
             /\ ops' = <<>>
             /\ "warn: nothing to save" \in report'
        ELSE ops' = <<"delete", "insert">> =>
               /\ \A r \in DOMAIN Outside(table) :
                    CopiesIn(r, table') >= CopiesIn(r, table)
               /\ BagCardinality(table') - BagCardinality(Outside(table))
                    \in {0, Len(df_buf')} ]_vars

\* A save refused for its empty buffer while the partition holds rows.
C2_Witness ==
  /\ "warn: nothing to save" \in report
  /\ fecha_desde <= fecha_hasta
  /\ Partition(table) # EmptyBag

\* C3: a successful save under a key whose partition holds rows of an earlier
\* save leaves the partition with exactly the content of the rows saved now.
C3_SecondSyncReplaces ==
  [][ (Saved' /\ Partition(table) # EmptyBag) =>
        SameContent(Partition(table'), df_buf') ]_vars

\* C4: after a successful save the quick query of the same key returns
\* exactly the saved rows, each with source_date and timezone_used.
C4_RoundTrip ==
  Saved =>
    /\ SameContent(df_db, df_buf)
    /\ \A r \in DOMAIN df_db : r.timezone_used = Strip(timezone)

\* C10: a save whose delete went through and whose insert failed leaves the
\* partition empty and the rest of the table as it was, reports the failure
\* and sends neither statement a second time.
C10_FailedInsertLeavesPartitionEmpty ==
  [][ (Len(ops') >= 2 /\ "error: save failed" \in report') =>
        /\ Partition(table') = EmptyBag
        /\ table' = Outside(table)
        /\ ops' = <<"delete", "insert">>
        /\ "success: saved" \notin report' ]_vars

\* A failed insert, with rows left in the table outside the partition.
C10_Witness ==
  /\ ops = <<"delete", "insert">>
  /\ "error: save failed" \in report
  /\ df_buf # <<>>
  /\ Partition(table) = EmptyBag
  /\ table # EmptyBag

====
